---- MODULE Spec2Model ----
(***************************************************************************)
(* A model of minecrust's geometry core (src/geometry/aabb.rs: the AABB    *)
(* value type with its constructors, merge, transform, face, points,       *)
(* partition and contains) and of its camera animation (src/ecs.rs:        *)
(* CameraAnimation and the camera part of RenderSystem::run).              *)
(*                                                                         *)
(* Numbers.  The code computes in f32.  A coordinate is modelled as an     *)
(* integer count of quanta, one quantum being 2^-Depth of the spacing of   *)
(* the corner coordinates the model draws.  On such small dyadic values    *)
(* every f32 sum, difference and halving the code performs is exact, so    *)
(* integer arithmetic is what the code computes there.  A halving whose    *)
(* result would fall below one quantum is outside the model's resolution:  *)
(* the actions that would need it are not enabled (Halvable).  Rounding,   *)
(* overflow to infinity and NaN are outside this domain.                   *)
(***************************************************************************)
EXTENDS Integers, Sequences, FiniteSets, TLC

VARIABLES
    aabb,       \* the AABB value the program currently holds
    op,         \* the operation that has just returned, "idle" between calls
    prev,       \* the AABB the last operation was applied to (self)
    argP,       \* first point argument of the last operation
    argQ,       \* second point argument of the last operation
    aabbs,      \* the slice given to merge_aabbs
    xform,      \* the Transform3f given to transform
    octants,    \* Option<Octants>: result of the last partition
    pts,        \* Vec<Point3f>: result of the last points()
    face_out,   \* Option<Face>: result of the last face()
    contained,  \* bool: result of the last contains()
    panic,      \* TRUE once the thread has panicked
    camera,            \* RenderState.camera: pos, yaw_q, pitch_q
    camera_animation,  \* RenderState.camera_animation: Option<CameraAnimation>
    elapsed_time,      \* RenderState.elapsed_time
    frame_time_delta,  \* RenderState.frame_time_delta
    mouse_delta,       \* RenderState.mouse_delta
    pressed_keys,      \* RenderState.pressed_keys
    cam_op,            \* the camera operation that ran last
    at_out,            \* Option of the pose the last at() returned
    end_dir,           \* Option of the end_direction CameraAnimation::new was last given
    entities,          \* number of entities created (their ids are 1..entities)
    transform_storage, \* WriteStorage<TransformComponent>
    aabb_storage,      \* WriteStorage<AabbComponent>
    pending_inserted,  \* inserted events of the transform storage not yet read
    pending_modified,  \* modified events of the transform storage not yet read
    inserted,          \* BoundingBoxComponentSystem.inserted
    modified,          \* BoundingBoxComponentSystem.modified
    ent_op,            \* the entity operation that ran last
    ent_arg,           \* Option of the entity it was called on
    ent_out,           \* Option of the entity it returned
    ent_panic          \* TRUE once an entity operation has panicked

geomVars == <<aabb, op, prev, argP, argQ, aabbs, xform, octants, pts, face_out,
              contained, panic>>
camVars == <<camera, camera_animation, elapsed_time, frame_time_delta,
             mouse_delta, pressed_keys, cam_op, at_out, end_dir>>
entVars == <<entities, transform_storage, aabb_storage, pending_inserted,
             pending_modified, inserted, modified, ent_op, ent_arg, ent_out,
             ent_panic>>
vars == <<geomVars, camVars, entVars>>

(***************************************************************************)
(* Bounds of the model.                                                    *)
(***************************************************************************)
\* Number of exact halvings a drawn coordinate admits (quanta per unit = 2^Depth).
Depth == 2
\* Longest slice given to merge_aabbs.
MaxList == 2

Unit == 2 ^ Depth
Step == Unit \div 2

\* Coordinates of the corner points handed to the constructors.
Coords == {0 - Unit, 0}
CornerPoints == {<<x, y, z>> : x \in Coords, y \in Coords, z \in Coords}
\* Coordinates of the points handed to the queries (contains, face): the
\* ends and the middle of the region the boxes lie in, and one quantum to
\* either side of each.
QueryCoords ==
    {c + d : c \in {0 - Unit, 0 - Step, 0}, d \in {0 - 1, 0, 1}}
QueryPoints == {<<x, y, z>> : x \in QueryCoords, y \in QueryCoords, z \in QueryCoords}
\* A coarser lattice of points over the same region and beyond it.
ProbeCoords == {k * Step : k \in (0 - 3)..1}
ProbePoints == {<<x, y, z>> : x \in ProbeCoords, y \in ProbeCoords, z \in ProbeCoords}

None == <<>>
Some(x) == <<x>>

(***************************************************************************)
(* Vector primitives (nalgebra's Point3f / Vector3f arithmetic).           *)
(***************************************************************************)
Abs(x) == IF x < 0 THEN 0 - x ELSE x
Lesser(a, b) == IF a <= b THEN a ELSE b
Greater(a, b) == IF a >= b THEN a ELSE b
Origin == <<0, 0, 0>>
VAdd(a, b) == <<a[1] + b[1], a[2] + b[2], a[3] + b[3]>>
VSub(a, b) == <<a[1] - b[1], a[2] - b[2], a[3] - b[3]>>
\* v / 2.0 : exact on the values the guards admit
VHalf(v) == <<v[1] \div 2, v[2] \div 2, v[3] \div 2>>
Even(v) == v[1] % 2 = 0 /\ v[2] % 2 = 0 /\ v[3] % 2 = 0

\* utils::point3f (not among the source files): componentwise min, max, midpoint
point3f_min(a, b) == <<Lesser(a[1], b[1]), Lesser(a[2], b[2]), Lesser(a[3], b[3])>>
point3f_max(a, b) == <<Greater(a[1], b[1]), Greater(a[2], b[2]), Greater(a[3], b[3])>>
point3f_midpoint(a, b) == VHalf(VAdd(a, b))

(***************************************************************************)
(* Rigid transforms (nalgebra's Transform3f applied to a Point3f): a       *)
(* rotation by a multiple of a quarter turn about an axis, followed by a   *)
(* translation by whole quanta.  These keep integer coordinates integer.   *)
(***************************************************************************)
Transform3f(r, v) == [rotation |-> r, translation |-> v]
Identity == Transform3f("identity", Origin)
\* The transforms the model draws: the identity, three translations, and
\* three rotations, each followed by the translation that brings the region
\* [-Unit, 0]^3 back onto itself.
Transforms ==
    { Identity,
      Transform3f("identity", <<Step, 0, 0>>),
      Transform3f("identity", <<0, 0 - Step, 0>>),
      Transform3f("identity", <<0, 0, Step>>),
      Transform3f("quarter_y", <<0, 0, 0 - Unit>>),
      Transform3f("half_y", <<0 - Unit, 0, 0 - Unit>>),
      Transform3f("quarter_x", <<0, 0 - Unit, 0>>) }

Rotate(r, v) ==
    CASE r = "identity"  -> v
      [] r = "quarter_y" -> <<v[3], v[2], 0 - v[1]>>
      [] r = "half_y"    -> <<0 - v[1], v[2], 0 - v[3]>>
      [] r = "quarter_x" -> <<v[1], 0 - v[3], v[2]>>

\* t * point
Apply(t, p) == VAdd(Rotate(t.rotation, p), t.translation)

\* f32::almost_eq (utils::f32 is not among the source files): equality up to
\* a tolerance, here of Tolerance quanta
Tolerance == 1
almost_eq(a, b) == Abs(a - b) <= Tolerance

(***************************************************************************)
(* AABB                                                                    *)
(***************************************************************************)
\* std::f32::INFINITY, and the NaN that inf - inf yields
INFINITY == 1000000
NAN == INFINITY + 1

AABB(c, e) == [center |-> c, extents |-> e]

\* a faulty variant: the corners are taken as named, not reordered, and the
\* center is the first corner
new_min_max_unordered(min_, max_) ==
    AABB(min_, VHalf(VSub(point3f_max(min_, max_), point3f_min(min_, max_))))
new_min_max(min_, max_) ==
    AABB(point3f_midpoint(min_, max_),
         VHalf(VSub(point3f_max(min_, max_), point3f_min(min_, max_))))

\* assert!(extents.x >= 0.0 && extents.y >= 0.0 && extents.z >= 0.0)
extents_assert(b) ==
    b.extents[1] >= 0 /\ b.extents[2] >= 0 /\ b.extents[3] >= 0

min(b) == VSub(b.center, b.extents)
max(b) == VAdd(b.center, b.extents)

\* new_min_max(p, q) is exact at the model's resolution
Exact(p, q) == Even(VAdd(p, q))

merge_two_aabbs(a, b) ==
    new_min_max(point3f_min(min(a), min(b)), point3f_max(max(a), max(b)))

\* the loop `for bb in &aabbs[0..]` run over the first n elements,
\* starting from aabbs[0]
RECURSIVE merge_loop(_, _)
merge_loop(list, n) ==
    IF n = 0 THEN list[1]
    ELSE merge_two_aabbs(merge_loop(list, n - 1), list[n])

\* a faulty variant: the length-1 shortcut taken for every slice
merge_aabbs_first(list) == list[1]
merge_aabbs(list) ==
    IF Len(list) = 1 THEN list[1] ELSE merge_loop(list, Len(list))

\* every new_min_max of the loop passes its assertion / is exact
merge_asserts(list) ==
    Len(list) = 1 \/ \A n \in 1..Len(list) : extents_assert(merge_loop(list, n))
merge_exact(list) ==
    Len(list) = 1 \/
    \A n \in 1..Len(list) :
        LET acc == merge_loop(list, n - 1) IN
        Exact(point3f_min(min(acc), min(list[n])), point3f_max(max(acc), max(list[n])))

\* new_infinite(): extents (inf - -inf) / 2 = inf, center the midpoint of
\* -inf and inf, which is NaN
new_infinite ==
    AABB(<<NAN, NAN, NAN>>, <<INFINITY, INFINITY, INFINITY>>)

\* a faulty variant: the extents are transformed like the center
transform_extents(b, t) == AABB(Apply(t, b.center), Rotate(t.rotation, b.extents))
transform(b, t) == AABB(Apply(t, b.center), b.extents)

\* a faulty variant: the x faces are tested before the z faces
face_x_first(b, point) ==
    IF almost_eq(point[2] - max(b)[2], 0) THEN Some("Top")
    ELSE IF almost_eq(0 - (point[2] - min(b)[2]), 0) THEN Some("Bottom")
    ELSE IF almost_eq(0 - (point[1] - min(b)[1]), 0) THEN Some("Left")
    ELSE IF almost_eq(point[1] - max(b)[1], 0) THEN Some("Right")
    ELSE IF almost_eq(point[3] - max(b)[3], 0) THEN Some("Front")
    ELSE IF almost_eq(0 - (point[3] - min(b)[3]), 0) THEN Some("Back")
    ELSE None
\* the dot product with an axis vector selects that component
face(b, point) ==
    IF almost_eq(point[2] - max(b)[2], 0) THEN Some("Top")
    ELSE IF almost_eq(0 - (point[2] - min(b)[2]), 0) THEN Some("Bottom")
    ELSE IF almost_eq(point[3] - max(b)[3], 0) THEN Some("Front")
    ELSE IF almost_eq(0 - (point[3] - min(b)[3]), 0) THEN Some("Back")
    ELSE IF almost_eq(0 - (point[1] - min(b)[1]), 0) THEN Some("Left")
    ELSE IF almost_eq(point[1] - max(b)[1], 0) THEN Some("Right")
    ELSE None

\* a faulty variant: all eight corners
points_all(b) ==
    LET mn == min(b)
        mx == max(b)
    IN  << mn,
           <<mn[1], mn[2], mx[3]>>,
           <<mn[1], mx[2], mn[3]>>,
           <<mn[1], mx[2], mx[3]>>,
           <<mx[1], mn[2], mn[3]>>,
           <<mx[1], mn[2], mx[3]>>,
           <<mx[1], mx[2], mn[3]>>,
           mx >>
points(b) ==
    LET mn == min(b)
        mx == max(b)
    IN  << mn,
           <<mn[1], mn[2], mx[3]>>,
           <<mn[1], mx[2], mn[3]>>,
           <<mn[1], mx[2], mx[3]>>,
           <<mx[1], mn[2], mn[3]>>,
           mx >>

\* a faulty variant that tests the center instead of the extents
is_infinite_center(b) ==
    \/ Abs(b.center[1]) = INFINITY
    \/ Abs(b.center[2]) = INFINITY
    \/ Abs(b.center[3]) = INFINITY
is_infinite(b) ==
    \/ Abs(b.extents[1]) = INFINITY
    \/ Abs(b.extents[2]) = INFINITY
    \/ Abs(b.extents[3]) = INFINITY

\* a faulty variant: the two x halves of the top octants are exchanged
partition_swapped(b) ==
    LET c  == b.center
        mn == min(b)
        mx == max(b)
    IN  [ tfr |-> new_min_max(<<mn[1], c[2], c[3]>>, <<c[1], mx[2], mx[3]>>),
          tfl |-> new_min_max(c, mx),
          tbr |-> new_min_max(<<mn[1], c[2], mn[3]>>, <<c[1], mx[2], c[3]>>),
          tbl |-> new_min_max(<<c[1], c[2], mn[3]>>, <<mx[1], mx[2], c[3]>>),
          bfl |-> new_min_max(<<mn[1], mn[2], c[3]>>, <<c[1], c[2], mx[3]>>),
          bfr |-> new_min_max(<<c[1], mn[2], c[3]>>, <<mx[1], c[2], mx[3]>>),
          bbl |-> new_min_max(mn, c),
          bbr |-> new_min_max(<<c[1], mn[2], mn[3]>>, <<mx[1], c[2], c[3]>>) ]
\* a faulty variant whose bottom-back-right octant is flat
partition_gap(b) ==
    LET c  == b.center
        mn == min(b)
        mx == max(b)
    IN  [ tfl |-> new_min_max(<<mn[1], c[2], c[3]>>, <<c[1], mx[2], mx[3]>>),
          tfr |-> new_min_max(c, mx),
          tbl |-> new_min_max(<<mn[1], c[2], mn[3]>>, <<c[1], mx[2], c[3]>>),
          tbr |-> new_min_max(<<c[1], c[2], mn[3]>>, <<mx[1], mx[2], c[3]>>),
          bfl |-> new_min_max(<<mn[1], mn[2], c[3]>>, <<c[1], c[2], mx[3]>>),
          bfr |-> new_min_max(<<c[1], mn[2], c[3]>>, <<mx[1], c[2], mx[3]>>),
          bbl |-> new_min_max(mn, c),
          bbr |-> new_min_max(<<c[1], mn[2], mn[3]>>, <<mx[1], c[2], mn[3]>>) ]
\* the Octants a finite box is split into (the is_infinite panic is the
\* Partition action's)
partition(b) ==
    LET c  == b.center
        mn == min(b)
        mx == max(b)
    IN  [ tfl |-> new_min_max(<<mn[1], c[2], c[3]>>, <<c[1], mx[2], mx[3]>>),
          tfr |-> new_min_max(c, mx),
          tbl |-> new_min_max(<<mn[1], c[2], mn[3]>>, <<c[1], mx[2], c[3]>>),
          tbr |-> new_min_max(<<c[1], c[2], mn[3]>>, <<mx[1], mx[2], c[3]>>),
          bfl |-> new_min_max(<<mn[1], mn[2], c[3]>>, <<c[1], c[2], mx[3]>>),
          bfr |-> new_min_max(<<c[1], mn[2], c[3]>>, <<mx[1], c[2], mx[3]>>),
          bbl |-> new_min_max(mn, c),
          bbr |-> new_min_max(<<c[1], mn[2], mn[3]>>, <<mx[1], c[2], c[3]>>) ]

OctantNames == {"tfr", "tfl", "tbr", "tbl", "bfr", "bfl", "bbr", "bbl"}

\* a faulty variant: the boundary is excluded
contains_open(b, point) ==
    LET v == VSub(point, b.center) IN
    Abs(v[1]) < b.extents[1] /\ Abs(v[2]) < b.extents[2] /\ Abs(v[3]) < b.extents[3]
contains(b, point) ==
    LET v == VSub(point, b.center) IN
    Abs(v[1]) <= b.extents[1] /\ Abs(v[2]) <= b.extents[2] /\ Abs(v[3]) <= b.extents[3]

\* The box lies within the coordinates the model covers.
InRange(b) ==
    \A i \in 1..3 : 0 - Unit <= min(b)[i] /\ max(b)[i] <= 0
\* Halving the box's extents is exact at the model's resolution.
Halvable(b) == Even(b.extents)

(***************************************************************************)
(* Camera and CameraAnimation (src/ecs.rs).                                *)
(*                                                                         *)
(* Angles are counted in quarter turns, so PI is 2 and the directions the  *)
(* model draws are the six axis directions.  A unit quaternion about a     *)
(* fixed axis is its angle modulo 4 pi (q and -q are different values).    *)
(* Times are whole ticks.  The cosine interpolation (utils::pt3f::clerp,   *)
(* utils::quat4f::clerp, not among the source files) is kept symbolic: a   *)
(* value is the record [from, to, num, den] for clerp(from, to, num/den),  *)
(* with num/den left undivided so that a zero or negative duration shows.  *)
(***************************************************************************)
\* std::f32::consts::PI, in quarter turns
PI == 2
\* Last tick the clock reaches.
MaxTime == 3
\* Longest animation drawn; the durations drawn start at -1.
MaxDuration == 2
\* Farthest the camera moves from where a pose put it, per axis.
MaxPos == 3

Durations == (0 - 1)..MaxDuration
Directions ==
    { <<1, 0, 0>>, <<0 - 1, 0, 0>>, <<0, 0, 1>>, <<0, 0, 0 - 1>>, <<0, 1, 0>> }
EndPositions == {Origin, <<Unit, 0, 0>>}
MouseDeltas == {<<0, 0>>, <<1, 0>>, <<0 - 1, 0>>, <<0, 1>>}
KeySets == {{}, {"W"}, {"S", "D"}, {"A"}}

\* a value held exactly, and clerp(a, b, num / den) of two such values
Exactly(x) == [from |-> x, to |-> x, num |-> 0, den |-> 1]
IsExact(v) == v.from = v.to /\ v.num = 0 /\ v.den = 1
clerp(a, b, t) == [from |-> a.from, to |-> b.from, num |-> t[1], den |-> t[2]]

\* UnitQuaternionf::from_euler_angles about one axis, and the product of two
\* quaternions about the same axis
Quat(angle) == angle % (4 * PI)
QuatMul(q, r) == (q + r) % (4 * PI)

Sin(a) == CASE a % 4 = 0 -> 0 [] a % 4 = 1 -> 1 [] a % 4 = 2 -> 0 [] a % 4 = 3 -> 0 - 1
Cos(a) == Sin(a + 1)
\* f32::atan2(x, z) and f32::asin(s) on the components of an axis direction
Atan2(x, z) ==
    CASE x = 0 /\ z >= 0 -> 0
      [] x > 0 /\ z = 0 -> 1
      [] x = 0 /\ z < 0 -> PI
      [] x < 0 /\ z = 0 -> 0 - 1
Asin(s) == s

\* Camera (crate::camera is not among the source files): the direction the
\* yaw and pitch quaternions turn the z axis to, the world's up, and the
\* free-look rotation
direction(cam) ==
    LET y == cam.yaw_q.from
        p == cam.pitch_q.from
    IN  <<Sin(y) * Cos(p), 0 - Sin(p), Cos(y) * Cos(p)>>
up(cam) == <<0, 1, 0>>
Cross(a, b) ==
    <<a[2] * b[3] - a[3] * b[2], a[3] * b[1] - a[1] * b[3], a[1] * b[2] - a[2] * b[1]>>
Scale(k, v) == <<k * v[1], k * v[2], k * v[3]>>
rotate(cam, d) ==
    [cam EXCEPT !.yaw_q = Exactly(QuatMul(Quat(d[1]), cam.yaw_q.from)),
                !.pitch_q = Exactly(QuatMul(Quat(d[2]), cam.pitch_q.from))]

\* a faulty variant that takes the differences the other way round
yaw_pitch_diff_swapped(v1, v2) ==
    LET v1y == Atan2(v1[1], v1[3])
        v1p == Asin(0 - v1[2])
        v2y == Atan2(v2[1], v2[3])
        v2p == Asin(0 - v2[2])
        dy  == v1y - v2y
        dp  == v1p - v2p
    IN  << IF dy > PI THEN dy - 2 * PI
           ELSE IF dy < 0 - PI THEN dy + 2 * PI
           ELSE dy,
           dp >>
\* vec3f::yaw_pitch_diff(v1, v2)
yaw_pitch_diff(v1, v2) ==
    LET v1y == Atan2(v1[1], v1[3])
        v1p == Asin(0 - v1[2])
        v2y == Atan2(v2[1], v2[3])
        v2p == Asin(0 - v2[2])
        dy  == v2y - v1y
        dp  == v2p - v1p
    IN  << IF dy > PI THEN dy - 2 * PI
           ELSE IF dy < 0 - PI THEN dy + 2 * PI
           ELSE dy,
           dp >>

\* CameraAnimation::new
CameraAnimation_new(cam, end_position, end_direction, start_time, duration) ==
    LET d        == yaw_pitch_diff(direction(cam), end_direction)
        yaw_diff == IF d[1] > PI THEN d[1] - 2 * PI
                    ELSE IF d[1] < 0 - PI THEN d[1] + 2 * PI
                    ELSE d[1]
        pitch_diff == d[2]
        rot_yaw_q   == Quat(yaw_diff)
        rot_pitch_q == Quat(pitch_diff)
    IN  [ start_pos     |-> cam.pos,
          start_yaw_q   |-> cam.yaw_q,
          start_pitch_q |-> cam.pitch_q,
          end_pos       |-> Exactly(end_position),
          end_yaw_q     |-> Exactly(QuatMul(rot_yaw_q, cam.yaw_q.from)),
          end_pitch_q   |-> Exactly(QuatMul(rot_pitch_q, cam.pitch_q.from)),
          start_time    |-> start_time,
          duration      |-> duration ]

\* CameraAnimation::at: (position, yaw quaternion, pitch quaternion) at time;
\* t = (time - start_time) / duration is the pair <<time - start_time, duration>>
at(anim, time) ==
    LET t == <<time - anim.start_time, anim.duration>> IN
    << clerp(anim.start_pos, anim.end_pos, t),
       clerp(anim.start_yaw_q, anim.end_yaw_q, t),
       clerp(anim.start_pitch_q, anim.end_pitch_q, t) >>

end_time(anim) == anim.start_time + anim.duration

\* The camera's orientation is held exactly (it is not in mid-animation).
Oriented(cam) == IsExact(cam.yaw_q) /\ IsExact(cam.pitch_q)

\* camera.pos after the key `keycode` of RenderSystem::run's loop; `moved`
\* is what the keys have added to pos since a pose was last written to it,
\* `drift` the keys that moved it along a direction still being interpolated
KeyDelta(cam, keycode, camera_speed) ==
    CASE keycode = "W" -> Scale(camera_speed, direction(cam))
      [] keycode = "S" -> Scale(0 - camera_speed, direction(cam))
      [] keycode = "A" -> Scale(0 - camera_speed, Cross(direction(cam), up(cam)))
      [] keycode = "D" -> Scale(camera_speed, Cross(direction(cam), up(cam)))
RECURSIVE KeysDelta(_, _, _)
KeysDelta(cam, keys, camera_speed) ==
    IF keys = {} THEN Origin
    ELSE LET k == CHOOSE k \in keys : TRUE IN
         VAdd(KeyDelta(cam, k, camera_speed), KeysDelta(cam, keys \ {k}, camera_speed))
MoveOnKeys(cam, keys, camera_speed) ==
    IF keys = {} \/ camera_speed = 0 THEN cam
    ELSE IF Oriented(cam)
         THEN [cam EXCEPT !.moved = VAdd(cam.moved, KeysDelta(cam, keys, camera_speed))]
         ELSE [cam EXCEPT !.drift = cam.drift \cup keys]

\* the pose (pos, yaw_q, pitch_q) written to the camera
WithPose(cam, pos, yaw_q, pitch_q) ==
    [pos |-> pos, yaw_q |-> yaw_q, pitch_q |-> pitch_q, moved |-> Origin, drift |-> {}]

\* the animation in the slot has run out at this frame's time (line 228)
expired ==
    camera_animation # None /\ elapsed_time >= end_time(camera_animation[1])

\* a faulty variant that applies the mouse rotation in animation frames too
run_pose_freelook ==
    LET d_yaw   == mouse_delta[1]
        d_pitch == mouse_delta[2]
        posed ==
            IF camera_animation # None
               THEN LET anim == camera_animation[1] IN
                    IF elapsed_time >= end_time(anim)
                       THEN WithPose(camera, anim.end_pos, anim.end_yaw_q, anim.end_pitch_q)
                       ELSE LET pose == at(anim, elapsed_time) IN
                            WithPose(camera, pose[1], pose[2], pose[3])
               ELSE camera
    IN  IF Oriented(posed) THEN rotate(posed, <<0 - d_yaw, d_pitch>>) ELSE posed
\* the pose RenderSystem::run writes to the camera (lines 221-242): the end
\* pose of an animation that has run out, the pose at(elapsed_time) of one
\* that has not, the free-look rotation if there is none
run_pose ==
    LET d_yaw   == mouse_delta[1]
        d_pitch == mouse_delta[2]
    IN  IF camera_animation # None
           THEN LET anim == camera_animation[1] IN
                IF elapsed_time >= end_time(anim)
                   THEN WithPose(camera, anim.end_pos, anim.end_yaw_q, anim.end_pitch_q)
                   ELSE LET pose == at(anim, elapsed_time) IN
                        WithPose(camera, pose[1], pose[2], pose[3])
           ELSE rotate(camera, <<0 - d_yaw, d_pitch>>)

\* a faulty variant that restarts a running animation at every frame
run_animation_restarted ==
    IF expired THEN None
    ELSE IF camera_animation = None THEN None
    ELSE Some([camera_animation[1] EXCEPT !.start_time = elapsed_time])
\* the animation slot after RenderSystem::run (lines 225-245)
run_animation == IF expired THEN None ELSE camera_animation

\* the camera part of RenderSystem::run (lines 221-261): the camera and the
\* animation slot after the frame
run_camera ==
    LET camera_speed == 3 * frame_time_delta IN
    [ camera |-> MoveOnKeys(run_pose, pressed_keys, camera_speed),
      camera_animation |-> run_animation,
      at_out |-> IF camera_animation # None /\ ~expired
                    THEN Some(at(camera_animation[1], elapsed_time))
                    ELSE None ]

(***************************************************************************)
(* Entities and their components (src/ecs/entity.rs) and the bounding box  *)
(* system (src/ecs.rs).  A storage maps each entity id to an Option of the *)
(* component; a FlaggedStorage also queues an event for every insert and   *)
(* every get_mut, which the system's reader drains.                        *)
(***************************************************************************)
\* Most entities created.
MaxEntities == 2

EntityIds == 1..MaxEntities
EntityTransforms ==
    { Identity, Transform3f("identity", <<Unit, 0, 0>>),
      Transform3f("identity", <<0, 0, Unit>>) }
EmptyStorage == [e \in EntityIds |-> None]

\* Aabb::new(Point3f::origin(), Vector3f::new(0.5, 0.5, 0.5)).transform(&t),
\* with 1.0 as Unit quanta
unitcube_aabb(t) == transform(AABB(Origin, <<Step, Step, Step>>), t)

\* specs::Storage::get(entity) and insert(entity, component)
Get(storage, e) == storage[e]
Insert(storage, e, component) == [storage EXCEPT ![e] = Some(component)]

\* Entity::set_transform: the transform storage afterwards
set_transform(storage, e, t) == Insert(storage, e, t)

\* BoundingBoxComponentSystem::run: the Aabb storage afterwards (the system
\* prints the inserted transforms and writes no component)
bbox_run(tstore, astore, flagged) == astore

\* Entity::new_clone line 39: `entity` has been shadowed by the entity just
\* created, so aabb() reads the storage at the new entity
clone_aabb(astore, source, created) == Get(astore, created)

(***************************************************************************)
(* The state machine: one action per operation.  An operation is called    *)
(* when no call is pending (op = "idle"); it records the call (op and its  *)
(* arguments) with its result, and Continue is the caller going on.        *)
(***************************************************************************)
Call(o, b, p, q, l, t) ==
    /\ UNCHANGED <<camVars, entVars>>
    /\ op' = o
    /\ prev' = b
    /\ argP' = p
    /\ argQ' = q
    /\ aabbs' = l
    /\ xform' = t

NoResults ==
    /\ octants' = None
    /\ pts' = <<>>
    /\ face_out' = None
    /\ contained' = FALSE

Init ==
    /\ aabb = new_min_max(Origin, Origin)
    /\ op = "idle"
    /\ prev = aabb
    /\ argP = Origin
    /\ argQ = Origin
    /\ aabbs = <<>>
    /\ xform = None
    /\ octants = None
    /\ pts = <<>>
    /\ face_out = None
    /\ contained = FALSE
    /\ panic = FALSE
    /\ camera = WithPose(<<>>, Exactly(Origin), Exactly(Quat(0)), Exactly(Quat(0)))
    /\ camera_animation = None
    /\ elapsed_time = 0
    /\ frame_time_delta = 0
    /\ mouse_delta = <<0, 0>>
    /\ pressed_keys = {}
    /\ cam_op = "init"
    /\ at_out = None
    /\ end_dir = None
    /\ entities = 0
    /\ transform_storage = EmptyStorage
    /\ aabb_storage = EmptyStorage
    /\ pending_inserted = {}
    /\ pending_modified = {}
    /\ inserted = {}
    /\ modified = {}
    /\ ent_op = "init"
    /\ ent_arg = None
    /\ ent_out = None
    /\ ent_panic = FALSE

\* AABB::new_min_max(p, q)
NewMinMax(p, q) ==
    /\ ~panic
    /\ op = "idle"
    /\ Exact(p, q)
    /\ LET b == new_min_max(p, q) IN
          IF extents_assert(b)
             THEN panic' = FALSE /\ aabb' = b /\ prev' = b
             ELSE panic' = TRUE /\ aabb' = aabb /\ prev' = aabb
    /\ UNCHANGED <<camVars, entVars>>
    /\ op' = "new_min_max"
    /\ argP' = p
    /\ argQ' = q
    /\ aabbs' = <<>>
    /\ xform' = None
    /\ NoResults

\* AABB::new_infinite()
NewInfinite ==
    /\ ~panic
    /\ op = "idle"
    /\ aabb' = new_infinite
    /\ panic' = FALSE
    /\ Call("new_infinite", new_infinite, Origin, Origin, <<>>, None)
    /\ NoResults

\* The boxes a caller merges with the one it holds.
Seeds == {new_min_max(p, q) : p \in CornerPoints, q \in CornerPoints}
RECURSIVE SeqsUpTo(_, _)
SeqsUpTo(S, n) ==
    IF n = 0 THEN {<<>>}
    ELSE LET shorter == SeqsUpTo(S, n - 1) IN
         shorter \cup {Append(s, x) : s \in {t \in shorter : Len(t) = n - 1}, x \in S}
\* what follows the box b in the slices merged: up to MaxList - 1 seed boxes
\* after a seed box, at most one after any other box
SeedLists == SeqsUpTo(Seeds, MaxList - 1)
MergeRests(b) == IF b \in Seeds THEN SeedLists ELSE SeqsUpTo(Seeds, 1)

\* AABB::merge_aabbs(&list); on an empty slice aabbs[0] panics
MergeAabbs(list) ==
    /\ ~panic
    /\ op = "idle"
    /\ \A i \in 1..Len(list) : ~is_infinite(list[i])
    /\ Len(list) > 0 => merge_exact(list)
    /\ IF Len(list) = 0 \/ ~merge_asserts(list)
          THEN panic' = TRUE /\ aabb' = aabb
          ELSE panic' = FALSE /\ aabb' = merge_aabbs(list)
    /\ Call("merge_aabbs", aabb, Origin, Origin, list, None)
    /\ NoResults

\* aabb.transform(&t)
Transform(t) ==
    /\ ~panic
    /\ op = "idle"
    /\ ~is_infinite(aabb)
    /\ InRange(transform(aabb, t))
    /\ aabb' = transform(aabb, t)
    /\ panic' = FALSE
    /\ Call("transform", aabb, Origin, Origin, <<>>, Some(t))
    /\ NoResults

\* aabb.partition(): panics on an infinite box
Partition ==
    /\ ~panic
    /\ op = "idle"
    /\ is_infinite(aabb) \/ Halvable(aabb)
    /\ IF is_infinite(aabb)
          THEN panic' = TRUE /\ octants' = None
          ELSE LET o == partition(aabb) IN
               IF \A n \in OctantNames : extents_assert(o[n])
                  THEN panic' = FALSE /\ octants' = Some(o)
                  ELSE panic' = TRUE /\ octants' = None
    /\ aabb' = aabb
    /\ Call("partition", aabb, Origin, Origin, <<>>, None)
    /\ pts' = <<>>
    /\ face_out' = None
    /\ contained' = FALSE

\* the caller goes on with one of the octants
SelectOctant(n) ==
    /\ ~panic
    /\ op = "partition"
    /\ octants # None
    /\ aabb' = octants[1][n]
    /\ panic' = FALSE
    /\ Call("octant", aabb, Origin, Origin, <<>>, None)
    /\ NoResults

\* aabb.contains(&p)
Contains(p) ==
    /\ ~panic
    /\ op = "idle"
    /\ ~is_infinite(aabb)
    /\ contained' = contains(aabb, p)
    /\ Call("contains", aabb, p, Origin, <<>>, None)
    /\ UNCHANGED <<aabb, panic>>
    /\ octants' = None
    /\ pts' = <<>>
    /\ face_out' = None

\* aabb.face(&p)
Face(p) ==
    /\ ~panic
    /\ op = "idle"
    /\ ~is_infinite(aabb)
    /\ face_out' = face(aabb, p)
    /\ Call("face", aabb, p, Origin, <<>>, None)
    /\ UNCHANGED <<aabb, panic>>
    /\ octants' = None
    /\ pts' = <<>>
    /\ contained' = FALSE

\* aabb.points()
Points ==
    /\ ~panic
    /\ op = "idle"
    /\ ~is_infinite(aabb)
    /\ pts' = points(aabb)
    /\ Call("points", aabb, Origin, Origin, <<>>, None)
    /\ UNCHANGED <<aabb, panic>>
    /\ octants' = None
    /\ face_out' = None
    /\ contained' = FALSE

\* the caller has used the result of the call
Continue ==
    /\ ~panic
    /\ op # "idle"
    /\ Call("idle", aabb, Origin, Origin, <<>>, None)
    /\ NoResults
    /\ UNCHANGED <<aabb, panic>>

\* The constructors and the operations that yield new boxes.
Next ==
    \/ \E p \in CornerPoints, q \in CornerPoints : NewMinMax(p, q)
    \/ NewInfinite
    \/ \E rest \in MergeRests(aabb) : MergeAabbs(<<aabb>> \o rest)
    \/ MergeAabbs(<<>>)
    \/ \E t \in Transforms : Transform(t)
    \/ Partition
    \/ \E n \in OctantNames : SelectOctant(n)
    \/ Continue

Spec == Init /\ [][Next]_vars

\* The queries, on the boxes the constructor and one partition yield.
QueryNext ==
    \/ \E p \in CornerPoints, q \in CornerPoints : NewMinMax(p, q)
    \/ Partition
    \/ \E n \in OctantNames : SelectOctant(n)
    \/ \E p \in QueryPoints : Contains(p)
    \/ \E p \in QueryPoints : Face(p)
    \/ Points
    \/ Continue

QuerySpec == Init /\ [][QueryNext]_vars

(***************************************************************************)
(* The camera's frame loop: the main loop polls the input and advances the *)
(* clock, a caller may start an animation, and RenderSystem::run runs.     *)
(***************************************************************************)
\* the main loop sets the clock and the input of the frame
Poll(dt, md, keys) ==
    /\ cam_op \in {"init", "run"}
    /\ elapsed_time + dt <= MaxTime
    /\ elapsed_time' = elapsed_time + dt
    /\ frame_time_delta' = dt
    /\ mouse_delta' = md
    /\ pressed_keys' = keys
    /\ cam_op' = "poll"
    /\ at_out' = None
    /\ end_dir' = None
    /\ UNCHANGED <<camera, camera_animation>>
    /\ UNCHANGED <<geomVars, entVars>>

\* a caller stores CameraAnimation::new(&camera, end_position, &end_direction,
\* elapsed_time, duration) in the animation slot
StartAnimation(end_position, end_direction, duration) ==
    /\ cam_op = "poll"
    /\ Oriented(camera)
    /\ camera_animation' =
          Some(CameraAnimation_new(camera, end_position, end_direction,
                                   elapsed_time, duration))
    /\ cam_op' = "new"
    /\ at_out' = None
    /\ end_dir' = Some(end_direction)
    /\ UNCHANGED <<camera, elapsed_time, frame_time_delta, mouse_delta, pressed_keys>>
    /\ UNCHANGED <<geomVars, entVars>>

\* RenderSystem::run
Run ==
    /\ cam_op \in {"poll", "new"}
    /\ LET r == run_camera IN
          /\ \A i \in 1..3 : Abs(r.camera.moved[i]) <= MaxPos
          /\ camera' = r.camera
          /\ camera_animation' = r.camera_animation
          /\ at_out' = r.at_out
    /\ end_dir' = None
    /\ cam_op' = "run"
    /\ UNCHANGED <<elapsed_time, frame_time_delta, mouse_delta, pressed_keys>>
    /\ UNCHANGED <<geomVars, entVars>>

CameraNext ==
    \/ \E dt \in {1}, md \in MouseDeltas, keys \in KeySets : Poll(dt, md, keys)
    \/ \E e \in EndPositions, d \in Directions, n \in Durations : StartAnimation(e, d, n)
    \/ Run

CameraSpec == Init /\ [][CameraNext]_vars

(***************************************************************************)
(* The entity operations.  An unwrap of None panics and ends the thread.   *)
(***************************************************************************)
EntDone(o, arg, out, p) ==
    /\ ent_op' = o
    /\ ent_arg' = arg
    /\ ent_out' = out
    /\ ent_panic' = p
    /\ UNCHANGED <<geomVars, camVars>>

\* Entity::new_empty
NewEmpty ==
    /\ ~ent_panic
    /\ entities < MaxEntities
    /\ entities' = entities + 1
    /\ UNCHANGED <<transform_storage, aabb_storage, pending_inserted,
                   pending_modified, inserted, modified>>
    /\ EntDone("new_empty", None, Some(entities + 1), FALSE)

\* Entity::new_unitcube(t, ...)
NewUnitcube(t) ==
    /\ ~ent_panic
    /\ entities < MaxEntities
    /\ LET e == entities + 1 IN
          /\ entities' = e
          /\ transform_storage' = Insert(transform_storage, e, t)
          /\ aabb_storage' = Insert(aabb_storage, e, unitcube_aabb(t))
          /\ pending_inserted' = pending_inserted \cup {e}
          /\ EntDone("new_unitcube", None, Some(e), FALSE)
    /\ UNCHANGED <<pending_modified, inserted, modified>>

\* e.set_transform(storage, t)
SetTransform(e, t) ==
    /\ ~ent_panic
    /\ e \in 1..entities
    /\ transform_storage' = set_transform(transform_storage, e, t)
    /\ IF Get(transform_storage, e) # None
          THEN /\ pending_modified' = pending_modified \cup {e}
               /\ UNCHANGED pending_inserted
          ELSE /\ pending_inserted' = pending_inserted \cup {e}
               /\ UNCHANGED pending_modified
    /\ UNCHANGED <<entities, aabb_storage, inserted, modified>>
    /\ EntDone("set_transform", Some(e), None, FALSE)

\* BoundingBoxComponentSystem::run
BoundingBoxRun ==
    /\ ~ent_panic
    /\ ent_op # "bbox_run"
    /\ inserted' = pending_inserted
    /\ modified' = pending_modified
    /\ pending_inserted' = {}
    /\ pending_modified' = {}
    /\ aabb_storage' = bbox_run(transform_storage, aabb_storage,
                                pending_inserted \cup pending_modified)
    /\ UNCHANGED <<entities, transform_storage>>
    /\ EntDone("bbox_run", None, None, FALSE)

\* Entity::new_clone(e, ...)
NewClone(e) ==
    /\ ~ent_panic
    /\ e \in 1..entities
    /\ entities < MaxEntities
    /\ UNCHANGED <<pending_modified, inserted, modified>>
    /\ IF Get(transform_storage, e) = None
          THEN \* line 35: component() unwraps None
               /\ UNCHANGED <<entities, transform_storage, aabb_storage, pending_inserted>>
               /\ EntDone("new_clone", Some(e), None, TRUE)
          ELSE LET created == entities + 1
                   read == clone_aabb(aabb_storage, e, created)
               IN  /\ entities' = created
                   /\ transform_storage' =
                         Insert(transform_storage, created, Get(transform_storage, e)[1])
                   /\ pending_inserted' = pending_inserted \cup {created}
                   /\ IF read = None
                         THEN \* line 39: aabb() unwraps None
                              /\ UNCHANGED aabb_storage
                              /\ EntDone("new_clone", Some(e), None, TRUE)
                         ELSE /\ aabb_storage' = Insert(aabb_storage, created, read[1])
                              /\ EntDone("new_clone", Some(e), Some(created), FALSE)

EntityNext ==
    \/ NewEmpty
    \/ \E t \in EntityTransforms : NewUnitcube(t)
    \/ \E e \in EntityIds, t \in EntityTransforms : SetTransform(e, t)
    \/ BoundingBoxRun
    \/ \E e \in EntityIds : NewClone(e)

EntitySpec == Init /\ [][EntityNext]_vars

(***************************************************************************)
(* Properties.                                                             *)
(***************************************************************************)
Axes == 1..3
Finite(b) == ~is_infinite(b)
Positive(v) == v[1] > 0 /\ v[2] > 0 /\ v[3] > 0
\* min with the coordinates of the axes in S replaced by those of max
Corner(b, S) == [i \in Axes |-> IF i \in S THEN max(b)[i] ELSE min(b)[i]]

\* C1: new_min_max gives the same box whichever way round its two corners
\* are passed, and that box's min() and max() are the componentwise minimum
\* and maximum of the two corners.
C1_NewMinMaxOrderIndependent ==
    op = "new_min_max" =>
        /\ ~panic
        /\ aabb = new_min_max(argQ, argP)
        /\ \A i \in Axes :
              /\ min(aabb)[i] = Lesser(argP[i], argQ[i])
              /\ max(aabb)[i] = Greater(argP[i], argQ[i])

\* the two corners are ordered one way on the x and z axes, the other way
\* on the y axis
C1_Witness ==
    /\ op = "new_min_max"
    /\ ~panic
    /\ argP[1] > argQ[1]
    /\ argP[2] < argQ[2]
    /\ argP[3] > argQ[3]
    /\ aabb = new_min_max(argP, argQ)

\* C2: every finite box the program holds, after any sequence of
\* new_min_max, merge_aabbs, transform and partition, has non-negative
\* extents on all three axes, and min() <= max() componentwise.
BoxOk(b) ==
    \A i \in Axes : b.extents[i] >= 0 /\ min(b)[i] <= max(b)[i]
C2_ExtentsNonNegative ==
    /\ Finite(aabb) => BoxOk(aabb)
    /\ octants # None => \A n \in OctantNames : BoxOk(octants[1][n])

\* a box of positive extents has been rotated to another place
C2_Witness ==
    /\ op = "transform"
    /\ xform[1].rotation # "identity"
    /\ Positive(prev.extents)
    /\ prev.center # aabb.center

\* C3: merge_aabbs of a non-empty slice returns the smallest box containing
\* every box of the slice: on each axis its min() is the least of the
\* boxes' min() and its max() the greatest of their max(), every point one
\* of the boxes contains it contains, and a slice of one box is returned
\* unchanged.
C3_MergeSmallest ==
    (op = "merge_aabbs" /\ Len(aabbs) > 0) =>
        /\ ~panic
        /\ \A i \in Axes :
              /\ \E k \in 1..Len(aabbs) : min(aabb)[i] = min(aabbs[k])[i]
              /\ \A k \in 1..Len(aabbs) : min(aabb)[i] <= min(aabbs[k])[i]
              /\ \E k \in 1..Len(aabbs) : max(aabb)[i] = max(aabbs[k])[i]
              /\ \A k \in 1..Len(aabbs) : max(aabb)[i] >= max(aabbs[k])[i]
        /\ \A p \in ProbePoints :
              (\E k \in 1..Len(aabbs) : contains(aabbs[k], p)) => contains(aabb, p)
        /\ Len(aabbs) = 1 => aabb = aabbs[1]

\* two boxes were merged into a box that is neither of them
C3_Witness ==
    /\ op = "merge_aabbs"
    /\ ~panic
    /\ Len(aabbs) = 2
    /\ aabb # aabbs[1]
    /\ aabb # aabbs[2]

\* C4: the eight octants of a finite box each have half its extent on
\* every axis and lie where their names say: t/b the upper/lower y half,
\* f/b the upper/lower z half, r/l the upper/lower x half; so bbl.min() is
\* the box's min() and tfr.max() its max().
UpperHalf(n, i) ==
    CASE i = 1 -> n \in {"tfr", "tbr", "bfr", "bbr"}
      [] i = 2 -> n \in {"tfr", "tfl", "tbr", "tbl"}
      [] i = 3 -> n \in {"tfr", "tfl", "bfr", "bfl"}
C4_OctantsPlaced ==
    (op = "partition" /\ Finite(aabb)) =>
        /\ ~panic
        /\ octants # None
        /\ \A n \in OctantNames : \A i \in Axes :
              LET o == octants[1][n] IN
              /\ 2 * o.extents[i] = aabb.extents[i]
              /\ IF UpperHalf(n, i)
                    THEN min(o)[i] = aabb.center[i] /\ max(o)[i] = max(aabb)[i]
                    ELSE min(o)[i] = min(aabb)[i] /\ max(o)[i] = aabb.center[i]
        /\ min(octants[1].bbl) = min(aabb)
        /\ max(octants[1].tfr) = max(aabb)

\* a box of positive extents has been partitioned
C4_Witness ==
    /\ op = "partition"
    /\ octants # None
    /\ Positive(aabb.extents)
    /\ octants[1].tfl # octants[1].tfr

\* C5: the eight octants of a finite box tile it: a point is in the box
\* exactly if it is in some octant, and a point in two different octants
\* lies on one of the three planes through the box's center.
C5_OctantsTile ==
    (op = "partition" /\ Finite(aabb) /\ octants # None) =>
        \A p \in QueryPoints :
            /\ contains(aabb, p) <=> \E n \in OctantNames : contains(octants[1][n], p)
            /\ \A n \in OctantNames, m \in OctantNames :
                  ( /\ n # m
                    /\ contains(octants[1][n], p)
                    /\ contains(octants[1][m], p) )
                  => \E i \in Axes : p[i] = aabb.center[i]

\* a box of positive extents has been partitioned, and its center lies in
\* all eight octants
C5_Witness ==
    /\ op = "partition"
    /\ octants # None
    /\ Positive(aabb.extents)
    /\ \A n \in OctantNames : contains(octants[1][n], aabb.center)

\* C6: contains(p) is true exactly if on each axis the distance of p from
\* the center is at most the extent; the boundary counts, so each of the
\* eight corners center +- extents is contained.
IsCorner(b, p) == \E S \in SUBSET Axes : p = Corner(b, S)
C6_ContainsClosed ==
    op = "contains" =>
        /\ contained <=> \A i \in Axes : Abs(argP[i] - aabb.center[i]) <= aabb.extents[i]
        /\ IsCorner(aabb, argP) => contained

\* a corner of a box of positive extents was found to be contained
C6_Witness ==
    /\ op = "contains"
    /\ Positive(aabb.extents)
    /\ argP = max(aabb)
    /\ contained

\* C7: face(p) returns the first face, in the order Top (y = max.y), Bottom
\* (y = min.y), Front (z = max.z), Back (z = min.z), Left (x = min.x),
\* Right (x = max.x), whose plane p is on within the tolerance, and no face
\* if p is on none of the six planes.
FaceOrder == <<"Top", "Bottom", "Front", "Back", "Left", "Right">>
OnPlane(f, b, p) ==
    CASE f = "Top"    -> Abs(p[2] - max(b)[2]) <= Tolerance
      [] f = "Bottom" -> Abs(p[2] - min(b)[2]) <= Tolerance
      [] f = "Front"  -> Abs(p[3] - max(b)[3]) <= Tolerance
      [] f = "Back"   -> Abs(p[3] - min(b)[3]) <= Tolerance
      [] f = "Left"   -> Abs(p[1] - min(b)[1]) <= Tolerance
      [] f = "Right"  -> Abs(p[1] - max(b)[1]) <= Tolerance
C7_FaceFirstInOrder ==
    op = "face" =>
        LET hits == {k \in 1..6 : OnPlane(FaceOrder[k], aabb, argP)} IN
        IF hits = {}
           THEN face_out = None
           ELSE \E k \in hits :
                   /\ \A j \in hits : k <= j
                   /\ face_out = Some(FaceOrder[k])

\* a point on the edge shared by the front and the right face, on neither
\* the top nor the bottom plane, was classified as Front
C7_Witness ==
    /\ op = "face"
    /\ OnPlane("Front", aabb, argP)
    /\ OnPlane("Right", aabb, argP)
    /\ ~OnPlane("Top", aabb, argP)
    /\ ~OnPlane("Bottom", aabb, argP)
    /\ face_out = Some("Front")

\* C8 as stated: points() returns six corners, min followed by five corners
\* each formed by replacing one or two of min's coordinates by max's.
C8_FiveCornersOfOneOrTwoMax ==
    op = "points" =>
        /\ Len(pts) = 6
        /\ pts[1] = min(aabb)
        /\ \A k \in 2..6 :
              \E S \in SUBSET Axes : Cardinality(S) \in {1, 2} /\ pts[k] = Corner(aabb, S)

\* C8 as amended: points() returns six corners: min, then the four corners
\* that replace in min the z coordinate, the y coordinate, the y and z
\* coordinates, and the x coordinate by max's, and last max itself, which
\* replaces all three.
C8_SixCornersEndingInMax ==
    op = "points" =>
        /\ Len(pts) = 6
        /\ pts[1] = Corner(aabb, {})
        /\ pts[2] = Corner(aabb, {3})
        /\ pts[3] = Corner(aabb, {2})
        /\ pts[4] = Corner(aabb, {2, 3})
        /\ pts[5] = Corner(aabb, {1})
        /\ pts[6] = Corner(aabb, {1, 2, 3})

\* the points of a box of positive extents, whose eight corners differ
C8_Witness ==
    /\ op = "points"
    /\ Positive(aabb.extents)
    /\ pts[6] = max(aabb)
    /\ Cardinality({pts[k] : k \in 1..Len(pts)}) = 6

\* C9: transform(t) moves the center to t applied to it and leaves the
\* extents as they were, whatever t is (rotations included); under the
\* identity the box is unchanged.
C9_TransformMovesCenterOnly ==
    op = "transform" =>
        /\ ~panic
        /\ aabb.extents = prev.extents
        /\ aabb.center = Apply(xform[1], prev.center)
        /\ xform[1] = Identity => aabb = prev

\* a box whose x and z extents differ has been rotated about the y axis
C9_Witness ==
    /\ op = "transform"
    /\ xform[1].rotation = "quarter_y"
    /\ prev.extents[1] # prev.extents[3]
    /\ aabb.extents = prev.extents

\* C10: an animation that CameraAnimation::new has built has a duration
\* greater than zero (a duration of zero or less is rejected).
C10_DurationPositive ==
    camera_animation # None => camera_animation[1].duration > 0

\* the step is a frame of RenderSystem::run
RunStep == cam_op' = "run"
\* the camera holds exactly the pose (pos, yaw_q, pitch_q)
PoseIs(cam, pos, yaw_q, pitch_q) == cam = WithPose(cam, pos, yaw_q, pitch_q)

\* C11: in a frame of RenderSystem::run with an active animation, the camera
\* ends at exactly the stored end pose and the animation is discarded if
\* elapsed_time >= end_time(); otherwise the camera ends at at(elapsed_time)
\* and the animation stays.  (Animations of a duration above zero only.)
C11_SnapOrInterpolate ==
    [][ (RunStep /\ camera_animation # None /\ camera_animation[1].duration > 0) =>
           LET anim == camera_animation[1] IN
           IF elapsed_time >= end_time(anim)
              THEN /\ PoseIs(camera', anim.end_pos, anim.end_yaw_q, anim.end_pitch_q)
                   /\ camera_animation' = None
              ELSE /\ LET pose == at(anim, elapsed_time) IN
                          PoseIs(camera', pose[1], pose[2], pose[3])
                   /\ camera_animation' = camera_animation ]_vars

\* C12: in a frame of RenderSystem::run the free-look rotation by the mouse
\* delta is applied exactly if no animation is active when the frame starts;
\* with an animation active, the frame it runs out in included, yaw and pitch
\* are the animation's and the mouse delta has no part in them.
C12_FreeLookOrAnimation ==
    [][ RunStep =>
           IF camera_animation = None
              THEN LET turned == rotate(camera, <<0 - mouse_delta[1], mouse_delta[2]>>) IN
                   /\ camera'.yaw_q = turned.yaw_q
                   /\ camera'.pitch_q = turned.pitch_q
              ELSE LET anim == camera_animation[1] IN
                   IF elapsed_time >= end_time(anim)
                      THEN /\ camera'.yaw_q = anim.end_yaw_q
                           /\ camera'.pitch_q = anim.end_pitch_q
                      ELSE /\ camera'.yaw_q = at(anim, elapsed_time)[2]
                           /\ camera'.pitch_q = at(anim, elapsed_time)[3] ]_vars

\* a frame ran with the mouse moved while an animation was under way, and
\* the camera's yaw and pitch are those of the animation at that time
C12_Witness ==
    /\ cam_op = "run"
    /\ mouse_delta # <<0, 0>>
    /\ at_out # None
    /\ camera_animation # None
    /\ camera.yaw_q = at_out[1][2]
    /\ camera.pitch_q = at_out[1][3]
    /\ camera.yaw_q.from # camera.yaw_q.to

\* the raw yaw difference between the camera's direction and the end
\* direction CameraAnimation::new was given, and the yaw difference it built
\* the end yaw rotation from: the angle from start_yaw_q to end_yaw_q
RawYawDiff ==
    Atan2(end_dir[1][1], end_dir[1][3])
        - Atan2(direction(camera)[1], direction(camera)[3])
UsedYawDiff ==
    LET a == (camera_animation[1].end_yaw_q.from
                - camera_animation[1].start_yaw_q.from) % (4 * PI)
    IN  IF a > 2 * PI THEN a - 4 * PI ELSE a
WrappedOnce ==
    UsedYawDiff = IF RawYawDiff > PI THEN RawYawDiff - 2 * PI
                  ELSE IF RawYawDiff < 0 - PI THEN RawYawDiff + 2 * PI
                  ELSE RawYawDiff

\* C13 as stated: the yaw difference CameraAnimation::new builds the end yaw
\* rotation from lies in (-PI, PI], and is the raw difference with 2 PI
\* added or subtracted at most once.
C13_YawDiffHalfOpen ==
    cam_op = "new" =>
        /\ 0 - PI < UsedYawDiff
        /\ UsedYawDiff <= PI
        /\ WrappedOnce

\* C13 as amended: the yaw difference lies in the closed interval [-PI, PI]:
\* 2 PI is subtracted from a raw difference above PI and added to one below
\* -PI, and a raw difference of -PI is kept.
C13_YawDiffClosed ==
    cam_op = "new" =>
        /\ 0 - PI <= UsedYawDiff
        /\ UsedYawDiff <= PI
        /\ WrappedOnce
        /\ UsedYawDiff = 0 - PI <=> RawYawDiff = 0 - PI

\* an animation was built for a camera facing +x and an end direction -x:
\* the raw difference is -PI, and so is the difference used
C13_Witness ==
    /\ cam_op = "new"
    /\ direction(camera) = <<1, 0, 0>>
    /\ end_dir = Some(<<0 - 1, 0, 0>>)
    /\ RawYawDiff = 0 - PI
    /\ UsedYawDiff = 0 - PI

\* C15: a frame of RenderSystem::run leaves the animation slot as it was,
\* every field of an active animation included, or clears a slot whose
\* animation has run out; it never fills an empty slot.
C15_AnimationOnlyDiscarded ==
    [][ RunStep =>
           \/ camera_animation' = camera_animation
           \/ /\ camera_animation # None
              /\ elapsed_time >= end_time(camera_animation[1])
              /\ camera_animation' = None ]_vars

\* a frame later than the one the animation started in has run, at() was
\* evaluated in it, and the animation is still in the slot
C15_Witness ==
    /\ cam_op = "run"
    /\ camera_animation # None
    /\ at_out # None
    /\ elapsed_time > camera_animation[1].start_time
    /\ elapsed_time < end_time(camera_animation[1])

\* C14: partition() of a box with an infinite extent panics and returns no
\* octants.
C14_PartitionInfinitePanics ==
    (op = "partition" /\ \E i \in Axes : Abs(aabb.extents[i]) = INFINITY) =>
        /\ panic
        /\ octants = None

\* partition() was called on the box of new_infinite() and panicked
C14_Witness ==
    /\ op = "partition"
    /\ aabb = new_infinite
    /\ panic
    /\ octants = None

\* C16: once the bounding box system has run, the Aabb stored for every
\* entity that has a transform and an Aabb is the unit cube's box under the
\* entity's current transform.
C16_AabbFollowsTransform ==
    ent_op = "bbox_run" =>
        \A e \in 1..entities :
            (Get(transform_storage, e) # None /\ Get(aabb_storage, e) # None) =>
                Get(aabb_storage, e)[1] = unitcube_aabb(Get(transform_storage, e)[1])

\* C17: new_clone of an entity that has a transform and an Aabb does not
\* panic and returns another entity whose transform and Aabb are the source
\* entity's.
C17_CloneCopiesComponents ==
    ( /\ ent_op = "new_clone"
      /\ Get(transform_storage, ent_arg[1]) # None
      /\ Get(aabb_storage, ent_arg[1]) # None ) =>
        /\ ~ent_panic
        /\ ent_out # None
        /\ ent_out[1] # ent_arg[1]
        /\ Get(transform_storage, ent_out[1]) = Get(transform_storage, ent_arg[1])
        /\ Get(aabb_storage, ent_out[1]) = Get(aabb_storage, ent_arg[1])

====
